---- MODULE Spec2Model ----
(***************************************************************************)
(* Model of script.py: the four extractors of the Daily Pennsylvanian      *)
(* headline scraper and the __main__ orchestration that stores their       *)
(* results in the daily event monitor.                                     *)
(*                                                                         *)
(* Strings are sequences of one-character strings, so that `in` (substring *)
(* test) and str.strip() are computed as Python computes them.             *)
(***************************************************************************)
EXTENDS Integers, Sequences, FiniteSets, TLC

VARIABLES
    pc,             \* position of __main__
    exitCode,       \* process exit status, -1 while running
    failure,        \* which fatal operation failed: "none", "makedirs", "save"
    file,           \* data/daily_pennsylvanian_headlines.json on disk
    file0,          \* the same file as it was before the run started
    dem,            \* the DailyEventMonitor instance (in memory)
    fetched,        \* outcome of every requests.get issued so far, in order
    raisedBy,       \* extractor whose exception reached the except clause
    data_point,     \* the four locals of __main__
    feat_headlines,
    most_recent,
    social_media,
    my_out,
    req,            \* SpecExtract: the response handed to the extractor
    fn,             \* SpecExtract: the extractor under call
    ret             \* SpecExtract: what the call produced

vars == <<pc, exitCode, failure, file, file0, dem, fetched, raisedBy,
          data_point, feat_headlines, most_recent, social_media, my_out,
          req, fn, ret>>

mainVars == <<pc, exitCode, failure, file, file0, dem, fetched, raisedBy,
              data_point, feat_headlines, most_recent, social_media, my_out>>

callVars == <<req, fn, ret>>

-----------------------------------------------------------------------------
(* Bounds *)

\* Items per document part (anchors, special-edition divs, sidebar stories,
\* social list items) in the documents the orchestrator run fetches.
MaxItems == 1

\* The same, for the documents the extractors are called on one at a time.
MaxElems == 2

-----------------------------------------------------------------------------
(* Strings *)

SeqsUpTo(S, n) == UNION {[1..k -> S] : k \in 0..n}

Whitespace == {" "}

RECURSIVE LStrip(_)
LStrip(t) == IF t # <<>> /\ Head(t) \in Whitespace THEN LStrip(Tail(t)) ELSE t

RECURSIVE RStrip(_)
RStrip(t) ==
    IF t # <<>> /\ t[Len(t)] \in Whitespace
    THEN RStrip(SubSeq(t, 1, Len(t) - 1))
    ELSE t

\* str.strip()
Strip(t) == RStrip(LStrip(t))

\* Python's `sub in s` on strings
IsIn(sub, s) ==
    \E i \in 0..(Len(s) - Len(sub)) : SubSeq(s, i + 1, i + Len(sub)) = sub

facebook_com == <<"f","a","c","e","b","o","o","k",".","c","o","m">>
twitter_com == <<"t","w","i","t","t","e","r",".","c","o","m">>
instagram_com == <<"i","n","s","t","a","g","r","a","m",".","c","o","m">>

https == <<"h","t","t","p","s",":","/","/">>

\* Link targets found on the page
Links ==
    { https \o facebook_com \o <<"/","x">>,
      https \o facebook_com \o <<"/","z">>,
      https \o twitter_com \o <<"/","y">>,
      https \o instagram_com \o <<"/","w">>,
      https \o twitter_com \o <<"/","?","u","=">> \o facebook_com,
      https \o <<"t","h","e","d","p",".","c","o","m">> }

\* Element texts found on the page
Texts == { <<"a">>, <<" ","b"," ">> }

-----------------------------------------------------------------------------
(* Documents and responses *)

frontpage_link == <<"frontpage-link">>
frontpage_link_standard_link == <<"frontpage-link", "standard-link">>
nav_link == <<"nav-link">>

\* <a class=...>text</a>; class is the list of class tokens
Anchors ==
    [class : {frontpage_link, frontpage_link_standard_link, nav_link},
     text : Texts]

\* <div class="special-edition">: the <a> elements nested in it
Divs == {<<>>} \cup {<<a>> : a \in {x \in Anchors : x.class # nav_link}}

\* <li> of the social list: its first <a>, if any, and that link's href
NoA == [a |-> FALSE, has_href |-> FALSE, href |-> <<>>]
NoHref == [a |-> TRUE, has_href |-> FALSE, href |-> <<>>]
Lis ==
    {NoA, NoHref}
    \cup {[a |-> TRUE, has_href |-> TRUE, href |-> h] : h \in Links \cup {<<>>}}

\* The page: anchors ahead of the special-edition blocks, the blocks, the
\* sidebar stories (their text), and the social-icons list.
EmptyDoc ==
    [anchors |-> <<>>, divs |-> <<>>, stories |-> <<>>,
     has_ul |-> TRUE, ul |-> <<>>]

Docs(n) ==
    {[EmptyDoc EXCEPT !.anchors = s] : s \in SeqsUpTo(Anchors, n)}
    \cup {[EmptyDoc EXCEPT !.divs = s] : s \in SeqsUpTo(Divs, n)}
    \cup {[EmptyDoc EXCEPT !.stories = s] : s \in SeqsUpTo(Texts, n)}
    \cup {[EmptyDoc EXCEPT !.ul = s] : s \in SeqsUpTo(Lis, n)}
    \cup {[EmptyDoc EXCEPT !.has_ul = FALSE]}

\* What requests.get produces: a response with ok True and a body, a
\* response with ok False, or an exception (kind "exc").
Responses(n) ==
    {[kind |-> "ok", doc |-> d] : d \in Docs(n)}
    \cup {[kind |-> "fail", doc |-> EmptyDoc], [kind |-> "exc", doc |-> EmptyDoc]}

FailResponse == [kind |-> "fail", doc |-> EmptyDoc]

-----------------------------------------------------------------------------
(* Results of a call: a value, None, or an exception *)

Value(v) == [st |-> "value", val |-> v]
None == [st |-> "None", val |-> <<>>]
Raise == [st |-> "raise", val |-> <<>>]
Unbound == [st |-> "unbound", val |-> <<>>]

\* Every <a> of the page in document order
RECURSIVE Flatten(_)
Flatten(ss) == IF ss = <<>> THEN <<>> ELSE Head(ss) \o Flatten(Tail(ss))

AllAnchors(doc) == doc.anchors \o Flatten(doc.divs)

HasClass(a, c) == \E i \in 1..Len(a.class) : a.class[i] = c

\* soup.find("a", class_="frontpage-link"): index of the first match, 0 if none
FindFrontpageLink(as) ==
    IF \E i \in 1..Len(as) : HasClass(as[i], "frontpage-link")
    THEN CHOOSE i \in 1..Len(as) :
            /\ HasClass(as[i], "frontpage-link")
            /\ \A j \in 1..(i - 1) : ~HasClass(as[j], "frontpage-link")
    ELSE 0

\* item.find("a", class_="frontpage-link standard-link"): index, 0 if none
FindStandardLink(as) ==
    IF \E i \in 1..Len(as) : as[i].class = frontpage_link_standard_link
    THEN CHOOSE i \in 1..Len(as) :
            /\ as[i].class = frontpage_link_standard_link
            /\ \A j \in 1..(i - 1) : as[j].class # frontpage_link_standard_link
    ELSE 0

scrape_data_point(r) ==
    IF r.kind = "exc" THEN Raise
    ELSE IF r.kind = "ok"
    THEN LET as == AllAnchors(r.doc)
             i == FindFrontpageLink(as)
         IN  Value(IF i = 0 THEN <<>> ELSE as[i].text)
    ELSE None

scrape_featured_headlines(r) ==
    IF r.kind = "exc" THEN Raise
    ELSE IF r.kind = "ok"
    THEN LET divs == r.doc.divs
         IN  IF \E k \in 1..Len(divs) : FindStandardLink(divs[k]) = 0
             THEN Raise     \* a.text on None
             ELSE Value([k \in 1..Len(divs) |->
                           Strip(divs[k][FindStandardLink(divs[k])].text)])
    ELSE Value(<<>>)

scrape_most_recent_headlines(r) ==
    IF r.kind = "exc" THEN Raise
    ELSE IF r.kind = "ok"
    THEN Value([k \in 1..Len(r.doc.stories) |-> Strip(r.doc.stories[k])])
    ELSE Value(<<>>)

\* lines 95-102: the truthy hrefs of the list items' first links
RECURSIVE CollectLinks(_)
CollectLinks(lis) ==
    IF lis = <<>> THEN <<>>
    ELSE IF Head(lis).has_href /\ Head(lis).href # <<>>
         THEN <<Head(lis).href>> \o CollectLinks(Tail(lis))
         ELSE CollectLinks(Tail(lis))

\* the if/elif chain of lines 106-111: the key the link is stored under
Classify(link) ==
    IF IsIn(facebook_com, link) THEN "facebook"
    ELSE IF IsIn(twitter_com, link) THEN "twitter"
    ELSE IF IsIn(instagram_com, link) THEN "instagram"
    ELSE "none"

\* d[k] = v on a dict
SetItem(d, k, v) == [x \in DOMAIN d \cup {k} |-> IF x = k THEN v ELSE d[x]]

\* the loop of lines 104-111, run on links[i..] with formatted_output = out
RECURSIVE FormatOutput_KeepFirst(_, _)
FormatOutput_KeepFirst(links, out) ==
    IF links = <<>> THEN out
    ELSE LET k == Classify(Head(links))
         IN  FormatOutput_KeepFirst(Tail(links),
                IF k = "none" \/ k \in DOMAIN out THEN out
                ELSE SetItem(out, k, Head(links)))

RECURSIVE FormatOutput(_, _)
FormatOutput(links, out) ==
    IF links = <<>> THEN out
    ELSE LET k == Classify(Head(links))
         IN  FormatOutput(Tail(links),
                IF k = "none" THEN out ELSE SetItem(out, k, Head(links)))

scrape_social_media_links(r) ==
    IF r.kind = "exc" THEN Raise
    ELSE IF r.kind = "ok"
    THEN IF ~r.doc.has_ul THEN Raise                        \* None.findAll
         ELSE IF \E k \in 1..Len(r.doc.ul) : ~r.doc.ul[k].a
              THEN Raise                                    \* None.get
              ELSE Value(FormatOutput(CollectLinks(r.doc.ul), <<>>))
    ELSE Value(<<>>)

-----------------------------------------------------------------------------
(* Calling one extractor on one response *)

Extractors == {"scrape_data_point", "scrape_featured_headlines",
               "scrape_most_recent_headlines", "scrape_social_media_links"}

NoResponse == [kind |-> "none", doc |-> EmptyDoc]

\* The values of the orchestrator's variables while only extractors are called
MainIdle ==
    /\ pc = "call"
    /\ exitCode = -1
    /\ failure = "none"
    /\ file = [state |-> "absent", data |-> <<>>]
    /\ file0 = file
    /\ dem = [loaded |-> FALSE, data |-> <<>>]
    /\ fetched = <<>>
    /\ raisedBy = "none"
    /\ data_point = Unbound
    /\ feat_headlines = Unbound
    /\ most_recent = Unbound
    /\ social_media = Unbound
    /\ my_out = Unbound

InitExtract ==
    /\ MainIdle
    /\ req \in Responses(MaxElems)
    /\ fn \in Extractors
    /\ ret = Unbound

CallDataPoint ==
    /\ fn = "scrape_data_point" /\ ret = Unbound
    /\ ret' = scrape_data_point(req)
    /\ UNCHANGED <<mainVars, req, fn>>

CallFeaturedHeadlines ==
    /\ fn = "scrape_featured_headlines" /\ ret = Unbound
    /\ ret' = scrape_featured_headlines(req)
    /\ UNCHANGED <<mainVars, req, fn>>

CallMostRecentHeadlines ==
    /\ fn = "scrape_most_recent_headlines" /\ ret = Unbound
    /\ ret' = scrape_most_recent_headlines(req)
    /\ UNCHANGED <<mainVars, req, fn>>

CallSocialMediaLinks ==
    /\ fn = "scrape_social_media_links" /\ ret = Unbound
    /\ ret' = scrape_social_media_links(req)
    /\ UNCHANGED <<mainVars, req, fn>>

NextExtract ==
    \/ CallDataPoint
    \/ CallFeaturedHeadlines
    \/ CallMostRecentHeadlines
    \/ CallSocialMediaLinks

SpecExtract == InitExtract /\ [][NextExtract]_vars

-----------------------------------------------------------------------------
(* The daily event monitor: a date-keyed mapping backed by one JSON file *)

Yesterday == "2024-03-01"
Today == "2024-03-02"

\* A day's value: a plain string or a mapping
StrEntry(t) == [tag |-> "str", str |-> t, map |-> <<>>]
MapEntry(m) == [tag |-> "map", str |-> <<>>, map |-> m]
NoEntry == [tag |-> "absent", str |-> <<>>, map |-> <<>>]

Keys == {"featured_headlines", "recent_headlines", "social_links"}

NoFile == [state |-> "absent", data |-> <<>>]
CorruptFile == [state |-> "corrupt", data |-> <<>>]
ValidFile(d) == [state |-> "valid", data |-> d]

\* DailyEventMonitor(path): an absent or invalid file gives an empty store
Load(f) == [loaded |-> TRUE, data |-> IF f.state = "valid" THEN f.data ELSE <<>>]

\* dem.add_today(value): insert or overwrite the entry of the current day
add_today(d, v) == SetItem(d, Today, v)

\* The entry of the current day in a file
TodayOf(f) ==
    IF f.state = "valid" /\ Today \in DOMAIN f.data THEN f.data[Today] ELSE NoEntry

OldMap ==
    [k \in Keys |->
        IF k = "social_links" THEN <<>> ELSE << <<"a">> >>]

\* The backing file as a run may find it
InitFiles ==
    { NoFile,
      CorruptFile,
      ValidFile(<<>>),
      ValidFile(SetItem(<<>>, Yesterday, StrEntry(<<"a">>))),
      ValidFile(SetItem(SetItem(<<>>, Yesterday, StrEntry(<<"a">>)),
                        Today, StrEntry(<<"b">>))),
      ValidFile(SetItem(<<>>, Today, MapEntry(OldMap))) }

-----------------------------------------------------------------------------
(* __main__ *)

Init ==
    /\ pc = "makedirs"
    /\ exitCode = -1
    /\ failure = "none"
    /\ file \in InitFiles
    /\ file0 = file
    /\ dem = [loaded |-> FALSE, data |-> <<>>]
    /\ fetched = <<>>
    /\ raisedBy = "none"
    /\ data_point = Unbound
    /\ feat_headlines = Unbound
    /\ most_recent = Unbound
    /\ social_media = Unbound
    /\ my_out = Unbound
    /\ req = NoResponse
    /\ fn = "none"
    /\ ret = Unbound

\* sys.exit(1), or an exception nothing catches
Exit(why) ==
    /\ pc' = "exited"
    /\ exitCode' = 1
    /\ failure' = why

Makedirs_NoExit ==
    /\ pc = "makedirs"
    /\ \/ /\ pc' = "load"
          /\ UNCHANGED <<exitCode, failure>>
       \/ /\ pc' = "load"
          /\ failure' = "makedirs"
          /\ UNCHANGED exitCode
    /\ UNCHANGED <<file, file0, dem, fetched, raisedBy, data_point,
                   feat_headlines, most_recent, social_media, my_out, callVars>>

\* os.makedirs("data", exist_ok=True) and its except clause
Makedirs ==
    /\ pc = "makedirs"
    /\ \/ /\ pc' = "load"
          /\ UNCHANGED <<exitCode, failure>>
       \/ Exit("makedirs")
    /\ UNCHANGED <<file, file0, dem, fetched, raisedBy, data_point,
                   feat_headlines, most_recent, social_media, my_out, callVars>>

LoadMonitor ==
    /\ pc = "load"
    /\ dem' = Load(file)
    /\ pc' = "scrape_data_point"
    /\ UNCHANGED <<exitCode, failure, file, file0, fetched, raisedBy, data_point,
                   feat_headlines, most_recent, social_media, my_out, callVars>>

Get_Cached(log, r) == IF log = <<>> THEN Append(log, r.kind) ELSE log

\* requests.get and the two log lines after it
Get(log, r) == Append(log, r.kind)

ExceptClause_KeepDataPoint(name) ==
    /\ raisedBy' = name
    /\ data_point' = data_point
    /\ feat_headlines' = None
    /\ most_recent' = None
    /\ social_media' = None
    /\ pc' = "save_data_point"

\* except Exception: every result is set to None
ExceptClause(name) ==
    /\ raisedBy' = name
    /\ data_point' = None
    /\ feat_headlines' = None
    /\ most_recent' = None
    /\ social_media' = None
    /\ pc' = "save_data_point"

ScrapeDataPoint ==
    /\ pc = "scrape_data_point"
    /\ \E r \in Responses(MaxItems) :
        /\ fetched' = Get(fetched, r)
        /\ LET res == scrape_data_point(r)
           IN  IF res.st = "raise"
               THEN ExceptClause("scrape_data_point")
               ELSE /\ data_point' = res
                    /\ pc' = "scrape_featured_headlines"
                    /\ UNCHANGED <<raisedBy, feat_headlines, most_recent, social_media>>
    /\ UNCHANGED <<exitCode, failure, file, file0, dem, my_out, callVars>>

ScrapeFeaturedHeadlines ==
    /\ pc = "scrape_featured_headlines"
    /\ \E r \in Responses(MaxItems) :
        /\ fetched' = Get(fetched, r)
        /\ LET res == scrape_featured_headlines(r)
           IN  IF res.st = "raise"
               THEN ExceptClause("scrape_featured_headlines")
               ELSE /\ feat_headlines' = res
                    /\ pc' = "scrape_most_recent_headlines"
                    /\ UNCHANGED <<raisedBy, data_point, most_recent, social_media>>
    /\ UNCHANGED <<exitCode, failure, file, file0, dem, my_out, callVars>>

ScrapeMostRecentHeadlines ==
    /\ pc = "scrape_most_recent_headlines"
    /\ \E r \in Responses(MaxItems) :
        /\ fetched' = Get(fetched, r)
        /\ LET res == scrape_most_recent_headlines(r)
           IN  IF res.st = "raise"
               THEN ExceptClause("scrape_most_recent_headlines")
               ELSE /\ most_recent' = res
                    /\ pc' = "scrape_social_media_links"
                    /\ UNCHANGED <<raisedBy, data_point, feat_headlines, social_media>>
    /\ UNCHANGED <<exitCode, failure, file, file0, dem, my_out, callVars>>

ScrapeSocialMediaLinks ==
    /\ pc = "scrape_social_media_links"
    /\ \E r \in Responses(MaxItems) :
        /\ fetched' = Get(fetched, r)
        /\ LET res == scrape_social_media_links(r)
           IN  IF res.st = "raise"
               THEN ExceptClause("scrape_social_media_links")
               ELSE /\ social_media' = res
                    /\ pc' = "save_data_point"
                    /\ UNCHANGED <<raisedBy, data_point, feat_headlines, most_recent>>
    /\ UNCHANGED <<exitCode, failure, file, file0, dem, my_out, callVars>>

\* dem.save(): the whole mapping is written, or the write fails and the
\* exception ends the process
Save(d, next) ==
    \/ /\ file' = ValidFile(d)
       /\ pc' = next
       /\ UNCHANGED <<exitCode, failure>>
    \/ /\ Exit("save")
       /\ UNCHANGED file

\* if data_point is not None: dem.add_today(data_point); dem.save()
SaveDataPoint ==
    /\ pc = "save_data_point"
    /\ IF data_point.st # "None"
       THEN /\ dem' = [dem EXCEPT !.data = add_today(@, StrEntry(data_point.val))]
            /\ Save(dem'.data, "save_all")
       ELSE /\ pc' = "save_all"
            /\ UNCHANGED <<dem, file, exitCode, failure>>
    /\ UNCHANGED <<file0, fetched, raisedBy, data_point, feat_headlines,
                   most_recent, social_media, my_out, callVars>>

BuildMyOut_NoNoneCheck(fh, mr, sm) ==
    LET o1 == IF fh.st # "None" THEN SetItem(<<>>, "featured_headlines", fh.val) ELSE <<>>
        o2 == SetItem(o1, "recent_headlines", mr.val)
        o3 == IF sm.st # "None" THEN SetItem(o2, "social_links", sm.val) ELSE o2
    IN  o3

\* my_out = {} and the three `is not None` insertions
BuildMyOut(fh, mr, sm) ==
    LET o1 == IF fh.st # "None" THEN SetItem(<<>>, "featured_headlines", fh.val) ELSE <<>>
        o2 == IF mr.st # "None" THEN SetItem(o1, "recent_headlines", mr.val) ELSE o1
        o3 == IF sm.st # "None" THEN SetItem(o2, "social_links", sm.val) ELSE o2
    IN  o3

SaveAll_KeepExisting ==
    /\ pc = "save_all"
    /\ my_out' = Value(BuildMyOut(feat_headlines, most_recent, social_media))
    /\ dem' = [dem EXCEPT !.data = IF Today \in DOMAIN @ THEN @
                                   ELSE add_today(@, MapEntry(my_out'.val))]
    /\ Save(dem'.data, "finish")
    /\ UNCHANGED <<file0, fetched, raisedBy, data_point, feat_headlines,
                   most_recent, social_media, callVars>>

\* dem.add_today(my_out); dem.save()
SaveAll ==
    /\ pc = "save_all"
    /\ my_out' = Value(BuildMyOut(feat_headlines, most_recent, social_media))
    /\ dem' = [dem EXCEPT !.data = add_today(@, MapEntry(my_out'.val))]
    /\ Save(dem'.data, "finish")
    /\ UNCHANGED <<file0, fetched, raisedBy, data_point, feat_headlines,
                   most_recent, social_media, callVars>>

\* print_tree, the dump of the data file, "Scrape complete"
Finish ==
    /\ pc = "finish"
    /\ pc' = "done"
    /\ exitCode' = 0
    /\ UNCHANGED <<failure, file, file0, dem, fetched, raisedBy, data_point,
                   feat_headlines, most_recent, social_media, my_out, callVars>>

Next ==
    \/ Makedirs
    \/ LoadMonitor
    \/ ScrapeDataPoint
    \/ ScrapeFeaturedHeadlines
    \/ ScrapeMostRecentHeadlines
    \/ ScrapeSocialMediaLinks
    \/ SaveDataPoint
    \/ SaveAll
    \/ Finish

Spec == Init /\ [][Next]_vars

-----------------------------------------------------------------------------
(* Properties *)

AfterScrape == {"save_data_point", "save_all", "finish", "done"}

AllFetchesFailed ==
    /\ fetched # <<>>
    /\ \A i \in 1..Len(fetched) : fetched[i] = "fail"

\* C1: a run whose fetches all fail (ok = False) leaves the persisted store,
\* read as a date-keyed mapping, exactly as it was before the run, today's
\* entry included.
C1_FetchFailureLeavesStore ==
    (pc = "done" /\ AllFetchesFailed) => Load(file).data = Load(file0).data

\* C2: when an extractor raised, all four results are None and none of them
\* reaches the store: today's entry stays what it was or is the empty
\* mapping; and a mapping the run stores for today has either all three
\* result keys or none of them.
C2_AllOrNothing ==
    /\ raisedBy # "none" =>
          /\ data_point = None
          /\ feat_headlines = None
          /\ most_recent = None
          /\ social_media = None
          /\ my_out \in {Unbound, Value(<<>>)}
          /\ TodayOf(file) \in {TodayOf(file0), MapEntry(<<>>)}
          /\ dem.data \in {Load(file0).data,
                           add_today(Load(file0).data, MapEntry(<<>>))}
    /\ (TodayOf(file) # TodayOf(file0) /\ TodayOf(file).tag = "map") =>
          DOMAIN TodayOf(file).map \in {{}, Keys}

C2_Witness ==
    /\ pc = "done"
    /\ raisedBy = "scrape_social_media_links"
    /\ fetched = <<"ok", "ok", "ok", "ok">>
    /\ TodayOf(file0) = StrEntry(<<"b">>)
    /\ TodayOf(file) = MapEntry(<<>>)

\* The store a run ends with when every fetch of it fails, from file f
FetchFailureRun(f) ==
    LET d0 == Load(f).data
        dp == scrape_data_point(FailResponse)
        d1 == IF dp.st # "None" THEN add_today(d0, StrEntry(dp.val)) ELSE d0
        mo == BuildMyOut(scrape_featured_headlines(FailResponse),
                         scrape_most_recent_headlines(FailResponse),
                         scrape_social_media_links(FailResponse))
    IN  ValidFile(add_today(d1, MapEntry(mo)))

\* C3: a run in which an extractor raises ends with the same persisted
\* store as a run, from the same initial store, whose fetches fail.
C3_RaiseSameAsFetchFailure ==
    (pc = "done" /\ raisedBy # "none") => file = FetchFailureRun(file0)

Invoked ==
    CASE pc = "scrape_featured_headlines" -> 1
      [] pc = "scrape_most_recent_headlines" -> 2
      [] pc = "scrape_social_media_links" -> 3
      [] pc \in AfterScrape \cup {"exited"} /\ raisedBy = "scrape_data_point" -> 1
      [] pc \in AfterScrape \cup {"exited"} /\ raisedBy = "scrape_featured_headlines" -> 2
      [] pc \in AfterScrape \cup {"exited"} /\ raisedBy = "scrape_most_recent_headlines" -> 3
      [] pc \in AfterScrape \cup {"exited"} /\ raisedBy = "scrape_social_media_links" -> 4
      [] pc \in AfterScrape /\ raisedBy = "none" -> 4
      [] pc = "exited" /\ raisedBy = "none" -> IF failure = "save" THEN 4 ELSE 0
      [] OTHER -> 0

C5_EmptyDefaults ==
    (req.kind = "fail" /\ ret # Unbound) => ret = Value(<<>>)

\* The mapping holding all three results of the run
FullOut ==
    [k \in Keys |->
        CASE k = "featured_headlines" -> feat_headlines.val
          [] k = "recent_headlines" -> most_recent.val
          [] k = "social_links" -> social_media.val]

\* C6: when the headline is available, today's entry is first saved as the
\* headline string and then saved as the combined mapping; after the final
\* save today's entry is that mapping, with no trace of the headline.
C6_LastWriteWins ==
    /\ (pc = "save_all" /\ data_point.st = "value") =>
          TodayOf(file) = StrEntry(data_point.val)
    /\ (pc \in {"finish", "done"} /\ data_point.st = "value") =>
          /\ TodayOf(file) = MapEntry(FullOut)
          /\ \A d \in DOMAIN file.data \ {Today} :
                d \in DOMAIN Load(file0).data /\ file.data[d] = file0.data[d]

C6_Witness ==
    /\ pc = "done"
    /\ data_point = Value(<<"a">>)
    /\ TodayOf(file0) = StrEntry(<<"b">>)
    /\ TodayOf(file) = MapEntry(FullOut)
    /\ feat_headlines.val # <<>>

\* C7: a failure to prepare the directory, or a failed save, ends the run
\* with a non-zero exit status and nothing happens after it; after a
\* directory failure the store was not loaded, nothing was fetched and the
\* file is untouched.
C7_FatalFailures ==
    [][ /\ failure' = "makedirs" =>
              /\ pc' = "exited"
              /\ exitCode' = 1
              /\ ~dem'.loaded
              /\ fetched' = <<>>
              /\ file' = file0'
        /\ failure' = "save" => (pc' = "exited" /\ exitCode' = 1)
        /\ pc = "exited" => UNCHANGED vars ]_vars

C7_Witness ==
    /\ failure = "makedirs"
    /\ pc = "exited"
    /\ exitCode = 1

\* The platform a link counts for: facebook.com first, then twitter.com,
\* then instagram.com
CountsFor(link, p) ==
    CASE p = "facebook" -> IsIn(facebook_com, link)
      [] p = "twitter" -> ~IsIn(facebook_com, link) /\ IsIn(twitter_com, link)
      [] p = "instagram" ->
            /\ ~IsIn(facebook_com, link)
            /\ ~IsIn(twitter_com, link)
            /\ IsIn(instagram_com, link)

Platforms == {"facebook", "twitter", "instagram"}

\* C8: on a fetched document with a social-icons list whose items all have
\* a link, the result maps each platform to the last non-empty link target
\* that counts for it, has a key only for platforms some link counts for,
\* and holds no other key.
C8_SocialLinks ==
    ( /\ fn = "scrape_social_media_links"
      /\ ret # Unbound
      /\ req.kind = "ok"
      /\ req.doc.has_ul
      /\ \A k \in 1..Len(req.doc.ul) : req.doc.ul[k].a ) =>
        LET ul == req.doc.ul
            Hits(p) == {k \in 1..Len(ul) :
                          /\ ul[k].has_href
                          /\ ul[k].href # <<>>
                          /\ CountsFor(ul[k].href, p)}
        IN  /\ ret.st = "value"
            /\ DOMAIN ret.val \subseteq Platforms
            /\ \A p \in Platforms :
                  /\ p \in DOMAIN ret.val <=> Hits(p) # {}
                  /\ Hits(p) # {} =>
                        \E k \in Hits(p) :
                            /\ \A j \in Hits(p) : j <= k
                            /\ ret.val[p] = ul[k].href

C8_Witness ==
    /\ fn = "scrape_social_media_links"
    /\ ret.st = "value"
    /\ Len(req.doc.ul) = 2
    /\ req.doc.ul[1].href = https \o facebook_com \o <<"/","x">>
    /\ req.doc.ul[2].href = https \o twitter_com \o <<"/","?","u","=">> \o facebook_com
    /\ DOMAIN ret.val = {"facebook"}
    /\ ret.val["facebook"] = req.doc.ul[2].href

\* C9: on a fetched document the headline extractor returns the trimmed
\* text of the front-page-link element, or the empty string when there is
\* none, and does not raise.
C9_TrimmedHeadline ==
    (fn = "scrape_data_point" /\ ret # Unbound /\ req.kind = "ok") =>
        LET as == AllAnchors(req.doc)
            Fp == {i \in 1..Len(as) : HasClass(as[i], "frontpage-link")}
        IN  /\ ret.st = "value"
            /\ Fp = {} => ret.val = <<>>
            /\ Fp # {} =>
                  \E i \in Fp : (\A j \in Fp : i <= j) /\ ret.val = Strip(as[i].text)

\* C10 (as claimed): a special-edition block without the nested link makes
\* only the featured headlines unavailable; the run's record for today
\* lacks featured_headlines and holds the other results.
C10_FeaturedOnly ==
    ( /\ pc = "done"
      /\ raisedBy = "scrape_featured_headlines"
      /\ fetched[2] = "ok" ) =>
        /\ TodayOf(file).tag = "map"
        /\ DOMAIN TodayOf(file).map = {"recent_headlines", "social_links"}

\* C10 (amended): a special-edition block without the nested link makes
\* the featured-headlines extractor raise, which ends the scrape: the
\* remaining extractors are not run, all four results are None, and the
\* record stored for today is the empty mapping.
C10_FeaturedAbortsAll ==
    (raisedBy = "scrape_featured_headlines" /\ fetched[2] = "ok") =>
        /\ Len(fetched) = 2
        /\ data_point = None /\ feat_headlines = None
        /\ most_recent = None /\ social_media = None
        /\ pc \in {"finish", "done"} => TodayOf(file) = MapEntry(<<>>)

C10_Witness ==
    /\ pc = "done"
    /\ raisedBy = "scrape_featured_headlines"
    /\ fetched = <<"ok", "ok">>
    /\ TodayOf(file0) = MapEntry(OldMap)
    /\ TodayOf(file) = MapEntry(<<>>)

====
